---- MODULE Spec2Model ----
(***************************************************************************)
(* Model of qiskit_aqt_provider/aqt_job_new.py: the job AQTJobNew that     *)
(* submits a batch of circuits to an AQT resource, polls the per-circuit   *)
(* API jobs from a thread pool, aggregates their status and assembles the  *)
(* combined result.                                                        *)
(*                                                                         *)
(* Circuits are numbered 1..N in the order of self.circuits (ordinal k of  *)
(* the specification is number k+1 here).                                  *)
(***************************************************************************)
EXTENDS Naturals, Integers, Sequences, FiniteSets, TLC

\* Largest batch (len(self.circuits)) explored.
MaxCircuits == 2

VARIABLES
    N,                 \* len(self.circuits)
    pc,                \* position of the calling thread
    op,                \* public method the calling thread is in
    timeout,           \* whether wait_for_final_state was given a timeout
    submitIdx,         \* circuit the loop of submit() is at
    failedAt,          \* circuit whose backend.submit raised (0: none)
    jobs,              \* self._jobs: insertion-ordered dict, job id -> payload
    lock,              \* self._jobs_lock: 0 free, k held by status worker k
    worker,            \* the futures of the current status() round
    submit_call_args,  \* circuits the resource received, in arrival order
    remoteCircuit,     \* resource side: job id -> circuit it evaluates (0: unused id)
    lastStatus,        \* value returned by the latest status()
    outcome,           \* how the latest public call ended
    reader,            \* a second thread that reads failed_jobs or the aggregate
    enc                \* one call of _shot_to_int: its arguments and its return

vars == <<N, pc, op, timeout, submitIdx, failedAt, jobs, lock, worker,
          submit_call_args, remoteCircuit, lastStatus, outcome, reader, enc>>

----------------------------------------------------------------------------
(* Tags for the status of AQT API jobs, and their JobStatus class attribute *)

JobTags == {"JobFinished", "JobFailed", "JobQueued", "JobOngoing", "JobCancelled"}

JobFinished(samples) == [tag |-> "JobFinished", data |-> samples]
JobFailed(error)     == [tag |-> "JobFailed", data |-> error]
JobQueued            == [tag |-> "JobQueued", data |-> 0]
JobOngoing           == [tag |-> "JobOngoing", data |-> 0]
JobCancelled         == [tag |-> "JobCancelled", data |-> 0]

StatusOf(payload) ==
    CASE payload.tag = "JobFinished"  -> "DONE"
      [] payload.tag = "JobFailed"    -> "ERROR"
      [] payload.tag = "JobQueued"    -> "QUEUED"
      [] payload.tag = "JobOngoing"   -> "RUNNING"
      [] payload.tag = "JobCancelled" -> "CANCELLED"

JOB_FINAL_STATES == {"DONE", "CANCELLED", "ERROR"}

----------------------------------------------------------------------------
(* The AQT resource (self._backend), seen from the job.                     *)

\* Identifiers the resource hands out; it never hands out one twice.
JobIds == 1 .. MaxCircuits

\* Status strings of a poll response; "unknown" stands for any other string.
ApiStatuses == {"queued", "ongoing", "finished", "error", "unknown"}

\* A poll either returns a response or the transport raises.
PollOutcomes == ApiStatuses \cup {"transport_error"}

\* response["result"] of a poll of job_id: the samples of the circuit the
\* resource evaluates under that id, or the error report of that id.
SamplesOf(circuit) == circuit
ErrorOf(job_id) == 10 + job_id

----------------------------------------------------------------------------
(* self._jobs: a dict keeps insertion order; assigning to a present key     *)
(* keeps the key's position, assigning to an absent key appends it.         *)

Keys(d) == {d[k].id : k \in DOMAIN d}

\* a dict whose assignment moves the key to the end (del, then insert)
DictSetMoveToEnd(d, job_id, payload) ==
    LET Other(e) == e.id # job_id IN
    Append(SelectSeq(d, Other), [id |-> job_id, payload |-> payload])

DictSet(d, job_id, payload) ==
    IF job_id \in Keys(d)
    THEN [k \in DOMAIN d |->
            IF d[k].id = job_id THEN [id |-> job_id, payload |-> payload] ELSE d[k]]
    ELSE Append(d, [id |-> job_id, payload |-> payload])

Values(d) == [k \in DOMAIN d |-> d[k].payload]

NoWorker == [pc |-> "none", resp |-> "none", job_id |-> 0]

NoOutcome == [kind |-> "none", success |-> FALSE, results |-> <<>>]

\* the second thread is in none of the readers
NoReader == [pc |-> "idle", kind |-> "none", seen |-> <<>>, failed |-> <<>>,
             status |-> "none"]

\* no call of _shot_to_int
NoEnc == [pc |-> "none"]

----------------------------------------------------------------------------
Init ==
    /\ N \in 0 .. MaxCircuits
    /\ pc = "new"
    /\ op = "none"
    /\ timeout = FALSE
    /\ submitIdx = 0
    /\ failedAt = 0
    /\ jobs = <<>>
    /\ lock = 0
    /\ worker = [k \in 1 .. MaxCircuits |-> NoWorker]
    /\ submit_call_args = <<>>
    /\ remoteCircuit = [i \in JobIds |-> 0]
    /\ lastStatus = "none"
    /\ outcome = NoOutcome
    /\ reader = NoReader
    /\ enc = NoEnc

----------------------------------------------------------------------------
(* submit(): the backend's run() calls it once, right after construction.   *)

\* a loop over reversed(self.circuits)
LoopCircuitReversed(idx) == N + 1 - idx

\* for circuit in self.circuits: the circuit the loop takes at position idx
LoopCircuit(idx) == idx

SubmitBegin ==
    /\ pc = "new"
    /\ pc' = "submit_loop"
    /\ op' = "submit"
    /\ submitIdx' = 1
    /\ UNCHANGED <<reader, enc, N, timeout, failedAt, jobs, lock, worker, submit_call_args,
                   remoteCircuit, lastStatus, outcome>>

\* _submit_single up to the call of self._backend.submit(payload)
SubmitCall ==
    /\ pc = "submit_loop"
    /\ submitIdx <= N
    /\ pc' = "submit_call"
    /\ submit_call_args' = Append(submit_call_args, LoopCircuit(submitIdx))
    /\ UNCHANGED <<reader, enc, N, op, timeout, submitIdx, failedAt, jobs, lock, worker,
                   remoteCircuit, lastStatus, outcome>>

\* self._backend.submit returns a job id; it is recorded under the lock
SubmitReturn ==
    /\ pc = "submit_call"
    /\ lock = 0
    /\ \E job_id \in JobIds :
        /\ remoteCircuit[job_id] = 0
        /\ remoteCircuit' = [remoteCircuit EXCEPT ![job_id] = LoopCircuit(submitIdx)]
        /\ jobs' = DictSet(jobs, job_id, JobQueued)
    /\ submitIdx' = submitIdx + 1
    /\ pc' = "submit_loop"
    /\ UNCHANGED <<reader, enc, N, op, timeout, failedAt, lock, worker, submit_call_args,
                   lastStatus, outcome>>

\* a loop that catches the exception of one circuit and goes on with the next
SubmitRaiseContinue ==
    /\ pc = "submit_call"
    /\ failedAt' = submitIdx
    /\ submitIdx' = submitIdx + 1
    /\ pc' = "submit_loop"
    /\ UNCHANGED <<reader, enc, N, op, timeout, jobs, lock, worker, submit_call_args,
                   remoteCircuit, lastStatus, outcome>>

\* self._backend.submit raises: the exception leaves submit()
SubmitRaise ==
    /\ pc = "submit_call"
    /\ failedAt' = submitIdx
    /\ pc' = "idle"
    /\ op' = "none"
    /\ outcome' = [NoOutcome EXCEPT !.kind = "SubmitError"]
    /\ UNCHANGED <<reader, enc, N, timeout, submitIdx, jobs, lock, worker, submit_call_args,
                   remoteCircuit, lastStatus>>

\* the loop is exhausted: submit() returns
SubmitEnd ==
    /\ pc = "submit_loop"
    /\ submitIdx > N
    /\ pc' = "idle"
    /\ op' = "none"
    /\ outcome' = [NoOutcome EXCEPT !.kind = "Submitted"]
    /\ UNCHANGED <<reader, enc, N, timeout, submitIdx, failedAt, jobs, lock, worker,
                   submit_call_args, remoteCircuit, lastStatus>>

----------------------------------------------------------------------------
(* status(): one future per key of self._jobs runs _status_single.          *)

Finished(w) == w.pc \in {"none", "done", "raised"}

AllFinished == \A k \in DOMAIN worker : Finished(worker[k])

\* futures = [pool.submit(self._status_single, job_id) for job_id in self._jobs]
Futures(d) ==
    [k \in 1 .. MaxCircuits |->
        IF k <= Len(d)
        THEN [pc |-> "polling", resp |-> "none", job_id |-> d[k].id]
        ELSE NoWorker]

\* the job_id argument of the _status_single call that future k runs
PollKey(k) == worker[k].job_id

\* payload["response"] of self._backend.result(job_id) with the given status
Response(job_id, status) ==
    [status |-> status,
     result |-> CASE status = "finished" -> SamplesOf(remoteCircuit[job_id])
                  [] status = "error"    -> ErrorOf(job_id)
                  [] OTHER               -> 0]

\* the branches of _status_single that assign self._jobs[job_id]
_status_single_known(response) ==
    response.status \in {"finished", "error", "queued", "ongoing"}

\* the "queued" and "ongoing" branches exchanged
_status_single_payload_swapped(response) ==
    CASE response.status = "finished" -> JobFinished(response.result)
      [] response.status = "error"    -> JobFailed(response.result)
      [] response.status = "queued"   -> JobOngoing
      [] response.status = "ongoing"  -> JobQueued

\* a translation that stores Cancelled for "error"
_status_single_payload_cancels(response) ==
    CASE response.status = "finished" -> JobFinished(response.result)
      [] response.status = "error"    -> JobCancelled
      [] response.status = "queued"   -> JobQueued
      [] response.status = "ongoing"  -> JobOngoing

_status_single_payload(response) ==
    CASE response.status = "finished" -> JobFinished(response.result)
      [] response.status = "error"    -> JobFailed(response.result)
      [] response.status = "queued"   -> JobQueued
      [] response.status = "ongoing"  -> JobOngoing

\* a write that puts every tracked unit in the polled unit's new state
_status_single_every_unit(d, job_id, response) ==
    IF _status_single_known(response)
    THEN [k \in DOMAIN d |-> [id |-> d[k].id, payload |-> _status_single_payload(response)]]
    ELSE d

\* self._jobs after _status_single(job_id) received response
_status_single(d, job_id, response) ==
    IF _status_single_known(response)
    THEN DictSet(d, job_id, _status_single_payload(response))
    ELSE d

\* the any() tests in another order: RUNNING first, CANCELLED before ERROR
_aggregate_status_reordered(d) ==
    LET statuses == [k \in DOMAIN d |-> StatusOf(Values(d)[k])] IN
    IF \E k \in DOMAIN statuses : statuses[k] = "RUNNING" THEN "RUNNING"
    ELSE IF \E k \in DOMAIN statuses : statuses[k] = "CANCELLED" THEN "CANCELLED"
    ELSE IF \E k \in DOMAIN statuses : statuses[k] = "ERROR" THEN "ERROR"
    ELSE IF \A k \in DOMAIN statuses : statuses[k] = "QUEUED" THEN "QUEUED"
    ELSE IF \A k \in DOMAIN statuses : statuses[k] = "DONE" THEN "DONE"
    ELSE "QUEUED"

\* all() in place of any() in the ERROR test
_aggregate_status_all_error(d) ==
    LET statuses == [k \in DOMAIN d |-> StatusOf(Values(d)[k])] IN
    IF d # <<>> /\ \A k \in DOMAIN statuses : statuses[k] = "ERROR" THEN "ERROR"
    ELSE IF \E k \in DOMAIN statuses : statuses[k] = "CANCELLED" THEN "CANCELLED"
    ELSE IF \E k \in DOMAIN statuses : statuses[k] = "RUNNING" THEN "RUNNING"
    ELSE IF \A k \in DOMAIN statuses : statuses[k] = "QUEUED" THEN "QUEUED"
    ELSE IF \A k \in DOMAIN statuses : statuses[k] = "DONE" THEN "DONE"
    ELSE "QUEUED"

\* a fallback that returns DONE for the remaining mixtures
_aggregate_status_fallback_done(d) ==
    LET statuses == [k \in DOMAIN d |-> StatusOf(Values(d)[k])] IN
    IF \E k \in DOMAIN statuses : statuses[k] = "ERROR" THEN "ERROR"
    ELSE IF \E k \in DOMAIN statuses : statuses[k] = "CANCELLED" THEN "CANCELLED"
    ELSE IF \E k \in DOMAIN statuses : statuses[k] = "RUNNING" THEN "RUNNING"
    ELSE IF \A k \in DOMAIN statuses : statuses[k] = "QUEUED" THEN "QUEUED"
    ELSE IF \A k \in DOMAIN statuses : statuses[k] = "DONE" THEN "DONE"
    ELSE "DONE"

\* the all-DONE test ahead of the all-QUEUED test
_aggregate_status_done_first(d) ==
    LET statuses == [k \in DOMAIN d |-> StatusOf(Values(d)[k])] IN
    IF \E k \in DOMAIN statuses : statuses[k] = "ERROR" THEN "ERROR"
    ELSE IF \E k \in DOMAIN statuses : statuses[k] = "CANCELLED" THEN "CANCELLED"
    ELSE IF \E k \in DOMAIN statuses : statuses[k] = "RUNNING" THEN "RUNNING"
    ELSE IF \A k \in DOMAIN statuses : statuses[k] = "DONE" THEN "DONE"
    ELSE IF \A k \in DOMAIN statuses : statuses[k] = "QUEUED" THEN "QUEUED"
    ELSE "QUEUED"

_aggregate_status(d) ==
    LET statuses == [k \in DOMAIN d |-> StatusOf(Values(d)[k])] IN
    IF \E k \in DOMAIN statuses : statuses[k] = "ERROR" THEN "ERROR"
    ELSE IF \E k \in DOMAIN statuses : statuses[k] = "CANCELLED" THEN "CANCELLED"
    ELSE IF \E k \in DOMAIN statuses : statuses[k] = "RUNNING" THEN "RUNNING"
    ELSE IF \A k \in DOMAIN statuses : statuses[k] = "QUEUED" THEN "QUEUED"
    ELSE IF \A k \in DOMAIN statuses : statuses[k] = "DONE" THEN "DONE"
    ELSE "QUEUED"

\* the calling thread enters status(): the pool gets one future per job id
StartRound ==
    /\ worker' = Futures(jobs)
    /\ lastStatus' = "none"
    /\ pc' = "status_wait"

StatusBegin ==
    /\ pc = "idle"
    /\ op' = "status"
    /\ timeout' = FALSE
    /\ outcome' = NoOutcome
    /\ StartRound
    /\ UNCHANGED <<reader, enc, N, submitIdx, failedAt, jobs, lock, submit_call_args, remoteCircuit>>

WorkerResponseUnderLock(k) ==
    /\ worker[k].pc = "polling"
    /\ IF lock = k
       THEN \E r \in PollOutcomes :
               IF r = "transport_error"
               THEN /\ worker' = [worker EXCEPT ![k].pc = "raised", ![k].resp = r]
                    /\ lock' = 0
               ELSE /\ worker' = [worker EXCEPT ![k].pc = "locked", ![k].resp = r]
                    /\ lock' = lock
       ELSE /\ lock = 0
            /\ lock' = k
            /\ worker' = worker
    /\ UNCHANGED <<reader, enc, N, pc, op, timeout, submitIdx, failedAt, jobs,
                   submit_call_args, remoteCircuit, lastStatus, outcome>>

\* self._backend.result(job_id) ends in worker k: the transport raises and
\* the exception stays in the future, or the call returns a response and the
\* worker enters `with self._jobs_lock` (which it does once the lock is free)
WorkerResponse(k) ==
    /\ worker[k].pc = "polling"
    /\ \E r \in PollOutcomes :
        IF r = "transport_error"
        THEN /\ worker' = [worker EXCEPT ![k].pc = "raised", ![k].resp = r]
             /\ lock' = lock
        ELSE /\ lock = 0
             /\ lock' = k
             /\ worker' = [worker EXCEPT ![k].pc = "locked", ![k].resp = r]
    /\ UNCHANGED <<reader, enc, N, pc, op, timeout, submitIdx, failedAt, jobs,
                   submit_call_args, remoteCircuit, lastStatus, outcome>>

\* the if/elif chain of _status_single, then the lock is released; the
\* RuntimeError of the else branch stays in the future
WorkerWrite(k) ==
    /\ worker[k].pc = "locked"
    /\ lock = k
    /\ LET response == Response(PollKey(k), worker[k].resp) IN
        /\ jobs' = _status_single(jobs, PollKey(k), response)
        /\ worker' = [worker EXCEPT ![k].pc =
                        IF _status_single_known(response) THEN "done" ELSE "raised"]
    /\ lock' = 0
    /\ UNCHANGED <<reader, enc, N, pc, op, timeout, submitIdx, failedAt,
                   submit_call_args, remoteCircuit, lastStatus, outcome>>

\* wait(futures, timeout=10.0) gives up while a future is still running
StatusWaitTimeout ==
    /\ pc = "status_wait"
    /\ ~AllFinished
    /\ pc' = "status_shutdown"
    /\ UNCHANGED <<reader, enc, N, op, timeout, submitIdx, failedAt, jobs, lock, worker,
                   submit_call_args, remoteCircuit, lastStatus, outcome>>

\* every future has ended (wait returned, the pool's shutdown(wait=True) of
\* the with block is over): return self._aggregate_status()
StatusReturn ==
    /\ pc \in {"status_wait", "status_shutdown"}
    /\ AllFinished
    /\ lock = 0
    /\ lastStatus' = _aggregate_status(jobs)
    /\ worker' = [k \in 1 .. MaxCircuits |-> NoWorker]
    /\ IF op = "status"
       THEN /\ pc' = "idle"
            /\ op' = "none"
            /\ outcome' = [NoOutcome EXCEPT !.kind = "Status"]
       ELSE /\ pc' = "wait_check"
            /\ UNCHANGED <<reader, enc, op, outcome>>
    /\ UNCHANGED <<reader, enc, N, timeout, submitIdx, failedAt, jobs, lock,
                   submit_call_args, remoteCircuit>>

----------------------------------------------------------------------------
(* wait_for_final_state(timeout) of the base class JobV1: status() is       *)
(* called until it returns one of JOB_FINAL_STATES.                         *)

WaitBegin ==
    /\ pc = "idle"
    /\ op' = "wait"
    /\ timeout' \in BOOLEAN
    /\ outcome' = NoOutcome
    /\ StartRound
    /\ UNCHANGED <<reader, enc, N, submitIdx, failedAt, jobs, lock, submit_call_args, remoteCircuit>>

\* the status is final: the loop ends
WaitFinal ==
    /\ pc = "wait_check"
    /\ lastStatus \in JOB_FINAL_STATES
    /\ IF op = "wait"
       THEN /\ pc' = "idle"
            /\ op' = "none"
            /\ outcome' = [NoOutcome EXCEPT !.kind = "WaitReturned"]
       ELSE /\ pc' = "result_agg"
            /\ UNCHANGED <<reader, enc, op, outcome>>
    /\ UNCHANGED <<reader, enc, N, timeout, submitIdx, failedAt, jobs, lock, worker,
                   submit_call_args, remoteCircuit, lastStatus>>

\* the status is not final and the timeout has elapsed: JobTimeoutError
WaitTimeout ==
    /\ pc = "wait_check"
    /\ lastStatus \notin JOB_FINAL_STATES
    /\ timeout
    /\ pc' = "idle"
    /\ op' = "none"
    /\ outcome' = [NoOutcome EXCEPT !.kind = "JobTimeoutError"]
    /\ UNCHANGED <<reader, enc, N, timeout, submitIdx, failedAt, jobs, lock, worker,
                   submit_call_args, remoteCircuit, lastStatus>>

\* the status is not final (and the timeout, if any, has not elapsed):
\* sleep, then status() again
WaitAgain ==
    /\ pc = "wait_check"
    /\ lastStatus \notin JOB_FINAL_STATES
    /\ StartRound
    /\ UNCHANGED <<reader, enc, N, op, timeout, submitIdx, failedAt, jobs, lock,
                   submit_call_args, remoteCircuit, outcome>>

----------------------------------------------------------------------------
(* result()                                                                 *)

\* self.wait_for_final_state(): no timeout is passed
ResultBegin ==
    /\ pc = "idle"
    /\ op' = "result"
    /\ timeout' = FALSE
    /\ outcome' = NoOutcome
    /\ StartRound
    /\ UNCHANGED <<reader, enc, N, submitIdx, failedAt, jobs, lock, submit_call_args, remoteCircuit>>

Min(a, b) == IF a <= b THEN a ELSE b

\* one entry of results: circuit is the header's circuit, counts is
\* _format_counts(result.samples, _build_memory_mapping(circuit)), kept as
\* the pair of the samples and the circuit whose mapping is applied
\* an entry that leaves data empty
ResultEntryNoData(circuit, result) ==
    [circuit |-> circuit,
     success |-> StatusOf(result) = "DONE",
     status  |-> StatusOf(result),
     counts  |-> <<>>]

ResultEntry(circuit, result) ==
    [circuit |-> circuit,
     success |-> StatusOf(result) = "DONE",
     status  |-> StatusOf(result),
     counts  |-> IF result.tag = "JobFinished" THEN <<result.data, circuit>> ELSE <<>>]

\* for circuit, result in zip(self.circuits, self._jobs.values())
ResultEntries(n, d) ==
    [k \in 1 .. Min(n, Len(d)) |-> ResultEntry(k, Values(d)[k])]

\* a result() without the raise: the Result is built for any final status
ResultFinishNoRaise ==
    /\ pc = "result_agg"
    /\ lock = 0
    /\ LET agg_status == _aggregate_status(jobs) IN
        outcome' = [kind |-> "Result",
                    success |-> agg_status = "DONE",
                    results |-> ResultEntries(N, jobs)]
    /\ pc' = "idle"
    /\ op' = "none"
    /\ UNCHANGED <<reader, enc, N, timeout, submitIdx, failedAt, jobs, lock, worker,
                   submit_call_args, remoteCircuit, lastStatus>>

\* agg_status = self._aggregate_status(); raise unless DONE, else the Result
ResultFinish ==
    /\ pc = "result_agg"
    /\ lock = 0
    /\ LET agg_status == _aggregate_status(jobs) IN
        outcome' = IF agg_status # "DONE"
                   THEN [NoOutcome EXCEPT !.kind = "RuntimeError"]
                   ELSE [kind |-> "Result",
                         success |-> agg_status = "DONE",
                         results |-> ResultEntries(N, jobs)]
    /\ pc' = "idle"
    /\ op' = "none"
    /\ UNCHANGED <<reader, enc, N, timeout, submitIdx, failedAt, jobs, lock, worker,
                   submit_call_args, remoteCircuit, lastStatus>>

failed_jobs_every_final(d) ==
    [job_id \in {d[k].id : k \in {j \in DOMAIN d :
                        d[j].payload.tag \in {"JobFailed", "JobFinished"}}} |->
        d[CHOOSE k \in DOMAIN d : d[k].id = job_id].payload.data]

\* failed_jobs: job id -> error report of the failed circuit evaluations
failed_jobs(d) ==
    [job_id \in {d[k].id : k \in {j \in DOMAIN d : d[j].payload.tag = "JobFailed"}} |->
        d[CHOOSE k \in DOMAIN d : d[k].id = job_id].payload.data]

----------------------------------------------------------------------------
Next ==
    \/ SubmitBegin
    \/ SubmitCall
    \/ SubmitReturn
    \/ SubmitRaise
    \/ SubmitEnd
    \/ StatusBegin
    \/ \E k \in 1 .. MaxCircuits : WorkerResponse(k)
    \/ \E k \in 1 .. MaxCircuits : WorkerWrite(k)
    \/ StatusWaitTimeout
    \/ StatusReturn
    \/ WaitBegin
    \/ WaitFinal
    \/ WaitTimeout
    \/ WaitAgain
    \/ ResultBegin
    \/ ResultFinish

Spec == Init /\ [][Next]_vars

\* every thread that can take a step eventually takes one: the pool's
\* workers run, the calls to the resource end, the calling thread goes on
FairSpec == Spec /\ WF_vars(Next)

----------------------------------------------------------------------------
(* _aggregate_status as a function of self._jobs: every assignment of the   *)
(* five payload classes to up to MaxAggUnits tracked jobs is an input.      *)

MaxAggUnits == 3

AnyPayload(job_id) ==
    {JobQueued, JobOngoing, JobFinished(SamplesOf(job_id)), JobFailed(ErrorOf(job_id)),
     JobCancelled}

AnyJobs ==
    UNION {{d \in [1 .. n -> [id : 1 .. n, payload : UNION {AnyPayload(i) : i \in 1 .. n}]] :
              \A k \in 1 .. n : d[k].id = k /\ d[k].payload \in AnyPayload(k)} :
           n \in 0 .. MaxAggUnits}

InitAgg ==
    /\ jobs \in AnyJobs
    /\ N = Len(jobs)
    /\ pc = "agg_input"
    /\ op = "none"
    /\ timeout = FALSE
    /\ submitIdx = 0
    /\ failedAt = 0
    /\ lock = 0
    /\ worker = [k \in 1 .. MaxCircuits |-> NoWorker]
    /\ submit_call_args = <<>>
    /\ remoteCircuit = [i \in JobIds |-> 0]
    /\ lastStatus = "none"
    /\ outcome = NoOutcome
    /\ reader = NoReader
    /\ enc = NoEnc

AggApply ==
    /\ pc = "agg_input"
    /\ lastStatus' = _aggregate_status(jobs)
    /\ pc' = "agg_done"
    /\ UNCHANGED <<reader, enc, N, op, timeout, submitIdx, failedAt, jobs, lock, worker,
                   submit_call_args, remoteCircuit, outcome>>

NextAgg == AggApply

SpecAgg == InitAgg /\ [][NextAgg]_vars

----------------------------------------------------------------------------
(* One round of status() with a second thread of the user that reads the    *)
(* failed_jobs property or calls _aggregate_status while the pool's workers *)
(* write.  A reader takes self._jobs_lock, walks self._jobs entry by entry  *)
(* and releases the lock; the round starts from any payloads that earlier   *)
(* rounds can have left in self._jobs.                                      *)

\* the value of lock while the second thread holds it
ReaderThread == MaxCircuits + 1

\* payloads that _submit_single and _status_single can have stored
StoredPayload(circuit, job_id) ==
    {JobQueued, JobOngoing, JobFinished(SamplesOf(circuit)), JobFailed(ErrorOf(job_id))}

\* self._jobs after a complete submit() of n circuits and any rounds
StoredJobs(n) ==
    {d \in [1 .. n -> [id : JobIds, payload : UNION {StoredPayload(c, i) : c \in 1 .. n, i \in JobIds}]] :
        /\ \A j, k \in 1 .. n : d[j].id = d[k].id => j = k
        /\ \A k \in 1 .. n : d[k].payload \in StoredPayload(k, d[k].id)}

InitReaders ==
    /\ N \in 0 .. MaxCircuits
    /\ jobs \in StoredJobs(N)
    /\ pc = "status_wait"
    /\ op = "status"
    /\ timeout = FALSE
    /\ submitIdx = N + 1
    /\ failedAt = 0
    /\ lock = 0
    /\ worker = Futures(jobs)
    /\ submit_call_args = [k \in 1 .. N |-> k]
    /\ remoteCircuit = [i \in JobIds |->
                          IF \E k \in 1 .. N : jobs[k].id = i
                          THEN CHOOSE k \in 1 .. N : jobs[k].id = i
                          ELSE 0]
    /\ lastStatus = "none"
    /\ outcome = NoOutcome
    /\ reader = NoReader
    /\ enc = NoEnc

ReaderBeginNoLock(kind) ==
    /\ reader.pc \in {"idle", "returned"}
    /\ reader' = [NoReader EXCEPT !.pc = "reading", !.kind = kind]
    /\ UNCHANGED <<N, pc, op, timeout, submitIdx, failedAt, jobs, lock, worker,
                   submit_call_args, remoteCircuit, lastStatus, outcome, enc>>

\* `with self._jobs_lock:` of failed_jobs or of _aggregate_status
ReaderBegin(kind) ==
    /\ reader.pc \in {"idle", "returned"}
    /\ lock = 0
    /\ lock' = ReaderThread
    /\ reader' = [NoReader EXCEPT !.pc = "reading", !.kind = kind]
    /\ UNCHANGED <<N, pc, op, timeout, submitIdx, failedAt, jobs, worker,
                   submit_call_args, remoteCircuit, lastStatus, outcome, enc>>

\* the comprehension over self._jobs reads the next entry
ReaderRead ==
    /\ reader.pc = "reading"
    /\ Len(reader.seen) < Len(jobs)
    /\ reader' = [reader EXCEPT !.seen = Append(@, jobs[Len(@) + 1])]
    /\ UNCHANGED <<N, pc, op, timeout, submitIdx, failedAt, jobs, lock, worker,
                   submit_call_args, remoteCircuit, lastStatus, outcome, enc>>

\* the comprehension is complete: the lock is released and the reader
\* returns what it computes from the entries it has read
ReaderEnd ==
    /\ reader.pc = "reading"
    /\ Len(reader.seen) = Len(jobs)
    /\ lock' = IF lock = ReaderThread THEN 0 ELSE lock
    /\ reader' = [reader EXCEPT
                    !.pc = "returned",
                    !.failed = IF reader.kind = "failed_jobs"
                               THEN failed_jobs(reader.seen) ELSE <<>>,
                    !.status = IF reader.kind = "_aggregate_status"
                               THEN _aggregate_status(reader.seen) ELSE "none"]
    /\ UNCHANGED <<N, pc, op, timeout, submitIdx, failedAt, jobs, worker,
                   submit_call_args, remoteCircuit, lastStatus, outcome, enc>>

NextReaders ==
    \/ \E k \in 1 .. MaxCircuits : WorkerResponse(k)
    \/ \E k \in 1 .. MaxCircuits : WorkerWrite(k)
    \/ \E kind \in {"failed_jobs", "_aggregate_status"} : ReaderBegin(kind)
    \/ ReaderRead
    \/ ReaderEnd

SpecReaders == InitReaders /\ [][NextReaders]_vars

----------------------------------------------------------------------------
(* _shot_to_int as a function of its two arguments.  A list of detected     *)
(* states is a function on 0 .. W-1, a translation map is the sequence of   *)
(* the (qubit, clbit) items of the dict in insertion order, and a numpy     *)
(* int64 is the set of the positions of the 1 bits of its two's complement  *)
(* pattern, so that sums wrap as they do in numpy.                          *)

MaxWidth == 3
MaxDest == MaxWidth + 2

\* bits of the integers that np.arange and np.left_shift produce
IntBits == 64

SetMax(S) == CHOOSE m \in S : \A x \in S : x <= m
SetMin(S) == CHOOSE m \in S : \A x \in S : m <= x

\* len(fluorescence_states) and len(creg)
Width(list) == Cardinality(DOMAIN list)

\* the int64 is negative: its sign bit is set
Negative(v) == (IntBits - 1) \in v

\* the value of a non-negative int64 whose 1 bits are all below position n
RECURSIVE ToInt(_, _)
ToInt(v, n) ==
    IF n = 0 THEN 0
    ELSE ToInt(v, n - 1) + (IF (n - 1) \in v THEN 2 ^ (n - 1) ELSE 0)

\* np.left_shift(1, i): bit i, or 0 when the shift count is the width or more
left_shift(x, i) == IF i < IntBits THEN {i} ELSE {}

\* weight * creg[i] for a detected state of 0 or 1
Times(weight, state) == IF state = 1 THEN weight ELSE {}

\* a + b in int64: bit i receives a carry when some lower position has a 1
\* in both and every position between has a 1 in one of them; the carry out
\* of the sign bit is dropped
Add64(a, b) ==
    LET carry(i) == \E j \in (a \cap b) :
                        j < i /\ \A k \in j + 1 .. i - 1 : k \in a \cup b
    IN {i \in 0 .. IntBits - 1 : (((i \in a) # (i \in b)) # carry(i))}

\* (np.left_shift(1, np.arange(len(creg))) * creg).sum() over the entries
\* lo .. hi-1; int64 addition is associative, the terms are added in halves
RECURSIVE WeightedSum(_, _, _)
WeightedSum(creg, lo, hi) ==
    IF hi <= lo THEN {}
    ELSE IF hi = lo + 1 THEN Times(left_shift(1, lo), creg[lo])
    ELSE LET mid == (lo + hi) \div 2
         IN Add64(WeightedSum(creg, lo, mid), WeightedSum(creg, mid, hi))

\* a loop that writes each state at its source position
RECURSIVE StoreItemsAtSource(_, _, _, _)
StoreItemsAtSource(creg, tr_map, fluorescence_states, n) ==
    IF n = 0 THEN creg
    ELSE [StoreItemsAtSource(creg, tr_map, fluorescence_states, n - 1)
            EXCEPT ![tr_map[n][1]] = fluorescence_states[tr_map[n][1]]]

\* creg after the first n rounds of `for src_index, dest_index in tr_map.items()`
RECURSIVE StoreItems(_, _, _, _)
StoreItems(creg, tr_map, fluorescence_states, n) ==
    IF n = 0 THEN creg
    ELSE [StoreItems(creg, tr_map, fluorescence_states, n - 1)
            EXCEPT ![tr_map[n][2]] = fluorescence_states[tr_map[n][1]]]

_shot_to_int_partial_ok(fluorescence_states, qubit_to_bit) ==
    LET tr_map == IF qubit_to_bit.given THEN qubit_to_bit.items ELSE <<>>
        keys == {tr_map[i][1] : i \in DOMAIN tr_map}
        values == {tr_map[i][2] : i \in DOMAIN tr_map}
    IN IF tr_map # <<>>
       THEN IF ~(keys \subseteq 0 .. Width(fluorescence_states) - 1)
            THEN [raised |-> "ValueError", value |-> {}]
            ELSE LET creg == StoreItems([i \in 0 .. SetMax(values) |-> 0], tr_map,
                                        fluorescence_states, Len(tr_map))
                 IN [raised |-> "none", value |-> WeightedSum(creg, 0, Width(creg))]
       ELSE [raised |-> "none",
             value |-> WeightedSum(fluorescence_states, 0, Width(fluorescence_states))]

\* what a call returns or raises
_shot_to_int(fluorescence_states, qubit_to_bit) ==
    LET tr_map == IF qubit_to_bit.given THEN qubit_to_bit.items ELSE <<>>
        keys == {tr_map[i][1] : i \in DOMAIN tr_map}
        values == {tr_map[i][2] : i \in DOMAIN tr_map}
    IN IF tr_map # <<>>
       THEN IF keys # 0 .. Width(fluorescence_states) - 1
            THEN [raised |-> "ValueError", value |-> {}]
            ELSE LET creg == StoreItems([i \in 0 .. SetMax(values) |-> 0], tr_map,
                                        fluorescence_states, Len(tr_map))
                 IN [raised |-> "none", value |-> WeightedSum(creg, 0, Width(creg))]
       ELSE [raised |-> "none",
             value |-> WeightedSum(fluorescence_states, 0, Width(fluorescence_states))]

\* the absolute value of an int64, as the pattern of an unsigned integer
Magnitude(v) ==
    IF Negative(v) THEN Add64((0 .. IntBits - 1) \ v, {0}) ELSE v

\* the hexadecimal digit of weight 16^k in a pattern
Nibble(m, k) ==
    (IF (4 * k) \in m THEN 1 ELSE 0) + (IF (4 * k + 1) \in m THEN 2 ELSE 0)
        + (IF (4 * k + 2) \in m THEN 4 ELSE 0) + (IF (4 * k + 3) \in m THEN 8 ELSE 0)

HexChars ==
    <<"0", "1", "2", "3", "4", "5", "6", "7", "8", "9", "a", "b", "c", "d", "e", "f">>

\* hex(v), a string as the sequence of its characters: a minus sign for a
\* negative value, "0x", and the digits of the magnitude from the most
\* significant one that is not 0 (a single "0" for zero)
hex(v) ==
    LET m == Magnitude(v)
        top == IF m = {} THEN 0 ELSE SetMax(m) \div 4
    IN (IF Negative(v) THEN <<"-">> ELSE <<>>) \o <<"0", "x">>
       \o [i \in 1 .. top + 1 |-> HexChars[Nibble(m, top + 1 - i) + 1]]

\* the elements of a set of integers in ascending order
RECURSIVE Ascending(_)
Ascending(S) ==
    IF S = {} THEN <<>> ELSE <<SetMin(S)>> \o Ascending(S \ {SetMin(S)})

Reversed(seq) == [i \in 1 .. Len(seq) |-> seq[Len(seq) + 1 - i]]

\* the items of the dict that maps the qubits of order, in that order of
\* insertion, to the clbits f gives them
TableItems(order, f) == [i \in 1 .. Len(order) |-> <<order[i], f[order[i]]>>]

NoTable == [given |-> FALSE, items |-> <<>>]

\* a width-n list with a single 1 at position p
OneHot(n, p) == [i \in 0 .. n - 1 |-> IF i = p THEN 1 ELSE 0]

\* the call _shot_to_int(fluorescence_states, qubit_to_bit) is about to be made
EncInput(fluorescence_states, qubit_to_bit) ==
    [pc |-> "input",
     fluorescence_states |-> fluorescence_states,
     qubit_to_bit |-> qubit_to_bit,
     raised |-> "none",
     value |-> {}]

\* every list of up to MaxWidth detected states, without a table and with
\* every dict over some qubits below MaxWidth (items inserted in ascending or
\* in descending order of the qubits), and the registers whose highest bits
\* are the highest bits of the int64
InitEnc ==
    /\ \/ \E W \in 0 .. MaxWidth : \E fl \in [0 .. W - 1 -> {0, 1}] :
            \/ enc = EncInput(fl, NoTable)
            \/ \E S \in SUBSET (0 .. MaxWidth - 1) : \E f \in [S -> 0 .. MaxDest] :
                \E order \in {Ascending(S), Reversed(Ascending(S))} :
                    enc = EncInput(fl, [given |-> TRUE, items |-> TableItems(order, f)])
       \/ \E d \in {0, 1} :
            \/ enc = EncInput(OneHot(IntBits - d, IntBits - d - 1), NoTable)
            \/ enc = EncInput(OneHot(1, 0),
                              [given |-> TRUE, items |-> << <<0, IntBits - d - 1>> >>])
    /\ N = 0
    /\ jobs = <<>>
    /\ pc = "new"
    /\ op = "none"
    /\ timeout = FALSE
    /\ submitIdx = 0
    /\ failedAt = 0
    /\ lock = 0
    /\ worker = [k \in 1 .. MaxCircuits |-> NoWorker]
    /\ submit_call_args = <<>>
    /\ remoteCircuit = [i \in JobIds |-> 0]
    /\ lastStatus = "none"
    /\ outcome = NoOutcome
    /\ reader = NoReader

\* one call _shot_to_int(fluorescence_states, qubit_to_bit)
EncApply ==
    /\ enc.pc = "input"
    /\ LET r == _shot_to_int(enc.fluorescence_states, enc.qubit_to_bit) IN
        enc' = [enc EXCEPT
                  !.pc = IF r.raised = "none" THEN "returned" ELSE "raised",
                  !.raised = r.raised,
                  !.value = r.value]
    /\ UNCHANGED <<N, pc, op, timeout, submitIdx, failedAt, jobs, lock, worker,
                   submit_call_args, remoteCircuit, lastStatus, outcome, reader>>

NextEnc == EncApply

SpecEnc == InitEnc /\ [][NextEnc]_vars

----------------------------------------------------------------------------
(* _build_memory_mapping as a function of circuit.data.  An instruction is  *)
(* its operation's name with the indices of its qubits and of its clbits; a *)
(* dict is the sequence of its items in insertion order.                    *)

MaxInstr == 3

\* a dict whose existing keys keep their first value
DictPutFirstWins(items, qubit, clbit) ==
    IF \E i \in DOMAIN items : items[i][1] = qubit
    THEN items
    ELSE Append(items, <<qubit, clbit>>)

\* qu2cl[qubit] = clbit: an existing key keeps its place and gets the value
DictPut(items, qubit, clbit) ==
    IF \E i \in DOMAIN items : items[i][1] = qubit
    THEN [i \in DOMAIN items |-> IF items[i][1] = qubit THEN <<qubit, clbit>> ELSE items[i]]
    ELSE Append(items, <<qubit, clbit>>)

\* qu2cl after the first n pairs of zip(instruction.qubits, instruction.clbits)
RECURSIVE PutPairs(_, _, _)
PutPairs(items, instruction, n) ==
    IF n = 0 THEN items
    ELSE DictPut(PutPairs(items, instruction, n - 1),
                 instruction.qubits[n], instruction.clbits[n])

\* qu2cl after the first n instructions of circuit.data
RECURSIVE Scan(_, _)
Scan(data, n) ==
    IF n = 0 THEN <<>>
    ELSE IF data[n].name = "measure"
         THEN PutPairs(Scan(data, n - 1), data[n],
                       Min(Len(data[n].qubits), Len(data[n].clbits)))
         ELSE Scan(data, n - 1)

_build_memory_mapping(circuit) ==
    [given |-> TRUE, items |-> Scan(circuit.data, Len(circuit.data))]

\* measure one qubit into one clbit, and a gate on one qubit
Measure(qubit, clbit) == [name |-> "measure", qubits |-> <<qubit>>, clbits |-> <<clbit>>]
Gate(qubit) == [name |-> "x", qubits |-> <<qubit>>, clbits |-> <<>>]

\* the instructions on the qubits and clbits below MaxWidth
Instructions ==
    {Measure(q, c) : q \in 0 .. MaxWidth - 1, c \in 0 .. MaxWidth - 1}
        \cup {Gate(q) : q \in 0 .. MaxWidth - 1}

\* every circuit of up to MaxInstr instructions
InitMap ==
    /\ \E n \in 0 .. MaxInstr : \E data \in [1 .. n -> Instructions] :
        enc = [pc |-> "map_input", circuit |-> [data |-> data], qu2cl |-> <<>>]
    /\ N = 0
    /\ jobs = <<>>
    /\ pc = "new"
    /\ op = "none"
    /\ timeout = FALSE
    /\ submitIdx = 0
    /\ failedAt = 0
    /\ lock = 0
    /\ worker = [k \in 1 .. MaxCircuits |-> NoWorker]
    /\ submit_call_args = <<>>
    /\ remoteCircuit = [i \in JobIds |-> 0]
    /\ lastStatus = "none"
    /\ outcome = NoOutcome
    /\ reader = NoReader

\* one call _build_memory_mapping(circuit)
MapApply ==
    /\ enc.pc = "map_input"
    /\ enc' = [enc EXCEPT !.pc = "map_returned",
                          !.qu2cl = _build_memory_mapping(enc.circuit).items]
    /\ UNCHANGED <<N, pc, op, timeout, submitIdx, failedAt, jobs, lock, worker,
                   submit_call_args, remoteCircuit, lastStatus, outcome, reader>>

NextMap == MapApply

SpecMap == InitMap /\ [][NextMap]_vars

----------------------------------------------------------------------------
(* One entry of results for a Finished unit: the table of the unit's        *)
(* circuit, the counts of the payload's samples, the reported shots.        *)

MaxShots == 2

\* the sum is taken over an empty list: numpy gives the float 0.0
FloatSum(shot, qubit_to_bit) ==
    Width(shot) = 0 /\ (~qubit_to_bit.given \/ qubit_to_bit.items = <<>>)

\* hex(_shot_to_int(shot, qubit_to_bit)): hex() takes no float
ShotKey(shot, qubit_to_bit) ==
    LET r == _shot_to_int(shot, qubit_to_bit)
    IN IF r.raised # "none" THEN [raised |-> r.raised, key |-> <<>>]
       ELSE IF FloatSum(shot, qubit_to_bit) THEN [raised |-> "TypeError", key |-> <<>>]
       ELSE [raised |-> "none", key |-> hex(r.value)]

\* dict(Counter(hex(_shot_to_int(shot, qubit_to_bit)) for shot in samples)):
\* the exception of the first shot that raises one, else key -> occurrences
_format_counts(samples, qubit_to_bit) ==
    LET keys == [i \in DOMAIN samples |-> ShotKey(samples[i], qubit_to_bit)]
        bad == {i \in DOMAIN samples : keys[i].raised # "none"}
    IN IF bad # {}
       THEN [raised |-> keys[SetMin(bad)].raised, counts |-> <<>>]
       ELSE [raised |-> "none",
             counts |-> [key \in {keys[i].key : i \in DOMAIN samples} |->
                            Cardinality({i \in DOMAIN samples : keys[i].key = key})]]

\* the list of width W whose bit i is the bit of weight 2^i of rank
ShotOfRank(W, rank) == [i \in 0 .. W - 1 |-> (rank \div (2 ^ i)) % 2]

\* a circuit of MaxWidth qubits that measures the qubits of S, in ascending
\* order, each into the clbit f gives it
MeasuringCircuit(S, f) ==
    [data |-> [i \in 1 .. Cardinality(S) |-> Measure(Ascending(S)[i], f[Ascending(S)[i]])]]

\* result() reaches a Finished unit of a job created with shots = self.shots
EntryInput(shots, circuit, samples) ==
    [pc |-> "entry_input", shots |-> shots, circuit |-> circuit, samples |-> samples,
     raised |-> "none", counts |-> <<>>, entry_shots |-> 0]

\* a job of MaxShots shots on a circuit that measures some of its qubits, each
\* into a clbit of its own; the payload holds any number of shot lists up to
\* MaxShots, all of one width up to MaxWidth (taken in ascending order: the
\* counts do not depend on the order), or one list as wide as an int64 or one
\* bit less
InitEntry ==
    /\ \E S \in SUBSET (0 .. MaxWidth - 1) : \E f \in [S -> 0 .. MaxWidth - 1] :
        /\ \A x, y \in S : f[x] = f[y] => x = y
        /\ \/ \E W \in 0 .. MaxWidth : \E n \in 0 .. MaxShots :
                \E rank \in [1 .. n -> 0 .. 2 ^ W - 1] :
                    /\ \A i \in 1 .. n - 1 : rank[i] <= rank[i + 1]
                    /\ enc = EntryInput(MaxShots, MeasuringCircuit(S, f),
                                        [i \in 1 .. n |-> ShotOfRank(W, rank[i])])
           \/ \E d \in {0, 1} :
                /\ S = {}
                /\ enc = EntryInput(MaxShots, MeasuringCircuit(S, f),
                                    <<OneHot(IntBits - d, IntBits - d - 1)>>)
    /\ N = 0
    /\ jobs = <<>>
    /\ pc = "new"
    /\ op = "none"
    /\ timeout = FALSE
    /\ submitIdx = 0
    /\ failedAt = 0
    /\ lock = 0
    /\ worker = [k \in 1 .. MaxCircuits |-> NoWorker]
    /\ submit_call_args = <<>>
    /\ remoteCircuit = [i \in JobIds |-> 0]
    /\ lastStatus = "none"
    /\ outcome = NoOutcome
    /\ reader = NoReader

\* meas_map = _build_memory_mapping(circuit);
\* data["counts"] = _format_counts(result.samples, meas_map);
\* results.append({"shots": self.shots, ...})
EntryApply ==
    /\ enc.pc = "entry_input"
    /\ LET meas_map == _build_memory_mapping(enc.circuit)
           r == _format_counts(enc.samples, meas_map)
       IN enc' = [enc EXCEPT
                    !.pc = IF r.raised = "none" THEN "entry_appended" ELSE "entry_raised",
                    !.raised = r.raised,
                    !.counts = r.counts,
                    !.entry_shots = IF r.raised = "none" THEN enc.shots ELSE 0]
    /\ UNCHANGED <<N, pc, op, timeout, submitIdx, failedAt, jobs, lock, worker,
                   submit_call_args, remoteCircuit, lastStatus, outcome, reader>>

NextEntry == EntryApply

SpecEntry == InitEntry /\ [][NextEntry]_vars

----------------------------------------------------------------------------
(* wrap_rxx_angle.  Angles are whole multiples of pi / (2 * HalfPi): HalfPi  *)
(* stands for math.pi / 2, so that the limits of the branches are angles of *)
(* the grid and there are angles strictly between them.                     *)

HalfPi == 2
MaxAngle == 40

Pi == 2 * HalfPi

abs(theta) == IF theta < 0 THEN 0 - theta ELSE theta

\* np.sign
sign(theta) == IF theta < 0 THEN 0 - 1 ELSE IF theta = 0 THEN 0 ELSE 1

\* CircuitInstruction(gate(angle), qubits)
CircuitInstruction(gate, angle, qubits) ==
    [gate |-> gate, angle |-> angle, qubits |-> qubits]

\* an RXX gate that keeps the sign of the angle
_rxx_signed_angle(theta) ==
    LET rxx == CircuitInstruction("rxx", theta, <<0, 1>>)
    IN IF theta >= 0 THEN <<rxx>>
       ELSE <<CircuitInstruction("rz", Pi, <<0>>), rxx, CircuitInstruction("rz", Pi, <<0>>)>>

_rxx_positive_angle(theta) ==
    LET rxx == CircuitInstruction("rxx", abs(theta), <<0, 1>>)
    IN IF theta >= 0 THEN <<rxx>>
       ELSE <<CircuitInstruction("rz", Pi, <<0>>), rxx, CircuitInstruction("rz", Pi, <<0>>)>>

\* the operations that wrap_rxx_angle collects into the instruction it returns;
\* theta %= 2 * math.pi leaves an angle in [0, 2 pi)
wrap_rxx_angle(theta) ==
    IF abs(theta) <= HalfPi
    THEN _rxx_positive_angle(theta)
    ELSE LET theta2 == theta % (2 * Pi)
         IN IF abs(theta2) <= HalfPi
            THEN _rxx_positive_angle(theta2)
            ELSE IF abs(theta2) <= 3 * HalfPi
            THEN LET corrected_angle == theta2 - sign(theta2) * Pi
                 IN <<CircuitInstruction("rx", Pi, <<0>>),
                      CircuitInstruction("rx", Pi, <<1>>)>>
                        \o _rxx_positive_angle(corrected_angle)
            ELSE LET corrected_angle == theta2 - sign(theta2) * 2 * Pi
                 IN _rxx_positive_angle(corrected_angle)

\* every angle of the grid up to MaxAngle, of either sign
InitRxx ==
    /\ \E theta \in (0 - MaxAngle) .. MaxAngle :
        enc = [pc |-> "rxx_input", theta |-> theta, operations |-> <<>>]
    /\ N = 0
    /\ jobs = <<>>
    /\ pc = "new"
    /\ op = "none"
    /\ timeout = FALSE
    /\ submitIdx = 0
    /\ failedAt = 0
    /\ lock = 0
    /\ worker = [k \in 1 .. MaxCircuits |-> NoWorker]
    /\ submit_call_args = <<>>
    /\ remoteCircuit = [i \in JobIds |-> 0]
    /\ lastStatus = "none"
    /\ outcome = NoOutcome
    /\ reader = NoReader

\* one call wrap_rxx_angle(theta)
WrapApply ==
    /\ enc.pc = "rxx_input"
    /\ enc' = [enc EXCEPT !.pc = "rxx_returned", !.operations = wrap_rxx_angle(enc.theta)]
    /\ UNCHANGED <<N, pc, op, timeout, submitIdx, failedAt, jobs, lock, worker,
                   submit_call_args, remoteCircuit, lastStatus, outcome, reader>>

NextRxx == WrapApply

SpecRxx == InitRxx /\ [][NextRxx]_vars

----------------------------------------------------------------------------
(* Properties                                                               *)

\* the tags of the tracked jobs, as a set
TagsIn(d) == {d[k].payload.tag : k \in DOMAIN d}

\* the composite status by precedence: Failed, Cancelled, Running, then
\* all-Queued, all-Finished, and Queued for any other mixture
PrecedenceStatus(d) ==
    CASE "JobFailed" \in TagsIn(d)      -> "ERROR"
      [] "JobCancelled" \in TagsIn(d)   -> "CANCELLED"
      [] "JobOngoing" \in TagsIn(d)     -> "RUNNING"
      [] TagsIn(d) \subseteq {"JobQueued"}   -> "QUEUED"
      [] TagsIn(d) \subseteq {"JobFinished"} -> "DONE"
      [] OTHER                          -> "QUEUED"

\* number of backend.submit calls that have started and not yet ended
SubmitInFlight ==
    Len(submit_call_args) - Len(jobs) - (IF failedAt # 0 THEN 1 ELSE 0)

\* C1: one submit() calls the resource once per circuit, one call at a time
\* and in the order of self.circuits: the calls made so far are circuits
\* 1, 2, ... in that order, at most one call is in flight and only while the
\* loop waits for it, a submit() that returned has made exactly N calls, the
\* k-th key of self._jobs is the id returned for circuit k, and every id is
\* tracked as JobQueued when submit() is in progress or has just returned.
C1_SubmitSequential ==
    /\ Len(submit_call_args) <= N
    /\ \A i \in DOMAIN submit_call_args : submit_call_args[i] = i
    /\ SubmitInFlight = (IF pc = "submit_call" THEN 1 ELSE 0)
    /\ outcome.kind = "Submitted" => Len(submit_call_args) = N /\ Len(jobs) = N
    /\ \A k \in DOMAIN jobs : remoteCircuit[jobs[k].id] = k
    /\ (op = "submit" \/ outcome.kind = "Submitted") =>
          \A k \in DOMAIN jobs : jobs[k].payload = JobQueued

C1_Witness ==
    /\ outcome.kind = "Submitted"
    /\ N = MaxCircuits
    /\ Len(jobs) = N
    /\ jobs[1].id > jobs[N].id

\* C2: when backend.submit raises for circuit i, submit() ends at once with
\* that error and self._jobs as it was (the i-1 circuits before it tracked);
\* from then on no further submission call is made, the tracked ids and their
\* order never change, and every status round polls each of them.
C2_SubmitFailFast ==
    [][ /\ (failedAt = 0 /\ failedAt' # 0) =>
              /\ pc' = "idle"
              /\ outcome'.kind = "SubmitError"
              /\ jobs' = jobs
              /\ Len(jobs) = failedAt' - 1
              /\ Len(submit_call_args) = failedAt'
        /\ failedAt # 0 =>
              /\ failedAt' = failedAt
              /\ submit_call_args' = submit_call_args
              /\ Len(jobs') = failedAt - 1
              /\ \A k \in DOMAIN jobs : jobs'[k].id = jobs[k].id
              /\ remoteCircuit' = remoteCircuit
        /\ (failedAt # 0 /\ pc # "status_wait" /\ pc' = "status_wait") =>
              \A k \in 1 .. failedAt - 1 :
                  worker'[k].pc = "polling" /\ worker'[k].job_id = jobs[k].id
      ]_vars

\* a circuit submitted before the failing one is polled to the end afterwards
C2_Witness ==
    /\ failedAt = 2
    /\ N = MaxCircuits
    /\ Len(jobs) = 1
    /\ jobs[1].payload.tag = "JobFinished"

\* C3: for every assignment of the five states to the units, the aggregate
\* is the first match of: any Failed -> ERROR, any Cancelled -> CANCELLED,
\* any Running -> RUNNING, all Queued -> QUEUED, all Finished -> DONE, any
\* other mixture -> QUEUED.
C3_AggregatePrecedence ==
    pc = "agg_done" =>
        /\ lastStatus = PrecedenceStatus(jobs)
        /\ ("JobFailed" \in TagsIn(jobs)) => lastStatus = "ERROR"
        /\ ("JobCancelled" \in TagsIn(jobs) /\ "JobFailed" \notin TagsIn(jobs)) =>
              lastStatus = "CANCELLED"
        /\ (jobs # <<>> /\ TagsIn(jobs) = {"JobFinished"}) => lastStatus = "DONE"
        /\ TagsIn(jobs) = {"JobQueued"} => lastStatus = "QUEUED"
        /\ TagsIn(jobs) = {"JobQueued", "JobFinished"} => lastStatus = "QUEUED"

\* one unit Cancelled, one Failed, one Running: Failed wins
C3_Witness ==
    /\ pc = "agg_done"
    /\ TagsIn(jobs) = {"JobFailed", "JobCancelled", "JobOngoing"}
    /\ lastStatus = "ERROR"

TerminalTags == {"JobFinished", "JobFailed", "JobCancelled"}

\* C4: a unit that is Finished, Failed or Cancelled is never in a different
\* state afterwards, whatever a later poll of it answers.
C4_TerminalIsFinal ==
    [][\A k \in DOMAIN jobs :
          jobs[k].payload.tag \in TerminalTags =>
              /\ k \in DOMAIN jobs'
              /\ jobs'[k].payload.tag = jobs[k].payload.tag]_vars

\* the edges Queued -> Running -> {Finished, Failed} and
\* Queued | Running -> Cancelled
LegalEdges ==
    { <<"JobQueued", "JobOngoing">>, <<"JobOngoing", "JobFinished">>,
      <<"JobOngoing", "JobFailed">>, <<"JobQueued", "JobCancelled">>,
      <<"JobOngoing", "JobCancelled">> }

\* C5 as stated: every state change of a unit is one of the legal edges.
C5_OnlyLegalEdges ==
    [][\A k \in DOMAIN jobs :
          (k \in DOMAIN jobs' /\ jobs'[k].payload.tag # jobs[k].payload.tag) =>
              <<jobs[k].payload.tag, jobs'[k].payload.tag>> \in LegalEdges]_vars

\* the state that each recognised status string stands for
TagOfStatus ==
    [status \in {"queued", "ongoing", "finished", "error"} |->
        CASE status = "queued"   -> "JobQueued"
          [] status = "ongoing"  -> "JobOngoing"
          [] status = "finished" -> "JobFinished"
          [] status = "error"    -> "JobFailed"]

\* C5 as amended: every state change of a tracked unit is the write of the
\* status worker that polled this unit's id, made while it holds the lock,
\* and puts the unit in the state its poll response stands for, whatever
\* state the unit was in: the new state is never Cancelled, and the order of
\* the tracked units does not change.
C5_ChangeIsPollTranslation ==
    [][\A k \in DOMAIN jobs :
          /\ k \in DOMAIN jobs'
          /\ jobs'[k].id = jobs[k].id
          /\ jobs'[k].payload.tag # jobs[k].payload.tag =>
                \E w \in DOMAIN worker :
                    /\ worker[w].pc = "locked"
                    /\ lock = w
                    /\ worker[w].job_id = jobs[k].id
                    /\ worker[w].resp \in DOMAIN TagOfStatus
                    /\ jobs'[k].payload.tag = TagOfStatus[worker[w].resp]
                    /\ jobs'[k].payload.tag # "JobCancelled"]_vars

\* a unit went from Queued to Finished in the first round that polled it
C5_Witness ==
    /\ \E k \in DOMAIN jobs :
          /\ jobs[k].payload.tag = "JobFinished"
          /\ worker[k].pc = "done"
          /\ worker[k].resp = "finished"
    /\ \E k \in DOMAIN jobs : jobs[k].payload.tag = "JobQueued"

\* result() has ended, by returning a Result or by raising RuntimeError
ResultEnded == outcome.kind \in {"Result", "RuntimeError"}

\* C6 as stated: after a final aggregate result() always returns a
\* structured result; when the aggregate is not DONE its success flag is
\* false and the entries of the Finished units carry their counts.
C6_AlwaysStructuredResult ==
    ResultEnded =>
        /\ outcome.kind = "Result"
        /\ PrecedenceStatus(jobs) # "DONE" =>
              /\ ~outcome.success
              /\ \A k \in DOMAIN jobs :
                    jobs[k].payload.tag = "JobFinished" =>
                        /\ k \in DOMAIN outcome.results
                        /\ outcome.results[k].counts # <<>>

\* C6 as amended: after a final aggregate result() returns a structured
\* result only when the aggregate is DONE, with the success flag true and
\* every entry successful and carrying counts; when the aggregate is Failed
\* or Cancelled it raises RuntimeError and returns nothing, so the counts of
\* the Finished units are not delivered.
C6_ResultOnlyWhenDone ==
    ResultEnded =>
        IF PrecedenceStatus(jobs) = "DONE"
        THEN /\ outcome.kind = "Result"
             /\ outcome.success
             /\ Len(outcome.results) = Len(jobs)
             /\ \A k \in DOMAIN outcome.results :
                   /\ outcome.results[k].success
                   /\ outcome.results[k].status = "DONE"
                   /\ outcome.results[k].counts # <<>>
        ELSE /\ outcome.kind = "RuntimeError"
             /\ ~outcome.success
             /\ outcome.results = <<>>

\* result() raised although one unit is Finished: its counts are not returned
C6_Witness ==
    /\ outcome.kind = "RuntimeError"
    /\ outcome.results = <<>>
    /\ TagsIn(jobs) = {"JobFinished", "JobFailed"}

\* C7: result() raises RuntimeError exactly when, after the wait for a final
\* state, some circuit evaluation is failed or cancelled, and returns a
\* Result exactly when all are done; failed_jobs then still maps the id of
\* every failed evaluation, and no other id, to the error the API reported.
C7_RaisesUnlessDone ==
    ResultEnded =>
        /\ outcome.kind = "RuntimeError" <=>
              \E k \in DOMAIN jobs : jobs[k].payload.tag \in {"JobFailed", "JobCancelled"}
        /\ outcome.kind = "Result" <=>
              (jobs # <<>> /\ \A k \in DOMAIN jobs : jobs[k].payload.tag = "JobFinished")
        /\ DOMAIN failed_jobs(jobs) =
              {jobs[k].id : k \in {j \in DOMAIN jobs : jobs[j].payload.tag = "JobFailed"}}
        /\ \A job_id \in DOMAIN failed_jobs(jobs) :
              failed_jobs(jobs)[job_id] = ErrorOf(job_id)

\* result() raised and failed_jobs holds the error of the failed evaluation
C7_Witness ==
    /\ outcome.kind = "RuntimeError"
    /\ Len(jobs) = MaxCircuits
    /\ jobs[1].payload.tag = "JobFinished"
    /\ jobs[Len(jobs)].payload.tag = "JobFailed"
    /\ DOMAIN failed_jobs(jobs) = {jobs[Len(jobs)].id}

\* C8: entry k of the Result belongs to circuit k: its header is circuit k
\* and its counts are made, with circuit k's mapping, from the samples of the
\* circuit that the k-th submission call handed to the resource, in whatever
\* order the status workers wrote their states.
C8_ResultInSubmissionOrder ==
    outcome.kind = "Result" =>
        \A k \in DOMAIN outcome.results :
            /\ outcome.results[k].circuit = k
            /\ submit_call_args[k] = k
            /\ outcome.results[k].counts = <<SamplesOf(submit_call_args[k]), k>>

\* a full batch whose job ids are not in submission order
C8_Witness ==
    /\ outcome.kind = "Result"
    /\ Len(outcome.results) = MaxCircuits
    /\ jobs[1].id > jobs[MaxCircuits].id

\* the status() round in progress ends with this step
RoundEnds ==
    /\ pc \in {"status_wait", "status_shutdown"}
    /\ pc' \notin {"status_wait", "status_shutdown"}

\* the poll of some unit has returned status "error" in the current round
PollSaidError ==
    \E k \in DOMAIN worker :
        worker[k].resp = "error" /\ worker[k].pc \in {"locked", "done"}

\* wait_for_final_state has left its loop on the status ERROR
WaitEndedOnError ==
    /\ lastStatus = "ERROR"
    /\ \/ pc = "idle" /\ outcome.kind = "WaitReturned"
       \/ pc = "result_agg"

\* C9: a status round in which the poll of some unit returned "error" ends
\* with the aggregate ERROR, whatever the states of the other units, and the
\* wait loop that sees ERROR ends there without another round and without a
\* timeout error; when threads and calls make progress, a wait during which
\* a poll returns "error" does end on ERROR.
C9_ErrorEndsWait ==
    /\ [][ /\ (RoundEnds /\ PollSaidError) =>
                 /\ lastStatus' = "ERROR"
                 /\ op \in {"wait", "result"} => pc' = "wait_check"
           /\ (pc = "wait_check" /\ lastStatus = "ERROR") => WaitEndedOnError'
         ]_vars
    /\ (op \in {"wait", "result"} /\ PollSaidError) ~> WaitEndedOnError

\* the wait ended on ERROR while another unit is still Queued or Running
C9_Witness ==
    /\ WaitEndedOnError
    /\ \E k \in DOMAIN jobs : jobs[k].payload.tag = "JobFailed"
    /\ \E k \in DOMAIN jobs : jobs[k].payload.tag \in {"JobQueued", "JobOngoing"}

\* C10: wait_for_final_state returns only when the aggregate computed by its
\* last status() round is DONE, ERROR or CANCELLED, and that aggregate is
\* the one of the unit states at that time; with a timeout it ends instead
\* with JobTimeoutError, and only while the aggregate is QUEUED or RUNNING.
C10_WaitReportsFinalOrTimeout ==
    /\ (outcome.kind = "WaitReturned" \/ pc = "result_agg") =>
          /\ lastStatus \in {"DONE", "ERROR", "CANCELLED"}
          /\ lastStatus = PrecedenceStatus(jobs)
    /\ outcome.kind = "JobTimeoutError" =>
          /\ timeout
          /\ lastStatus \in {"QUEUED", "RUNNING"}
          /\ lastStatus = PrecedenceStatus(jobs)

\* the timeout elapsed on the mixture of Queued and Finished units
C10_Witness ==
    /\ outcome.kind = "JobTimeoutError"
    /\ TagsIn(jobs) = {"JobQueued", "JobFinished"}

----------------------------------------------------------------------------
\* positions of the tracked jobs whose payload is JobFailed
FailedUnits(d) == {k \in DOMAIN d : d[k].payload.tag = "JobFailed"}

\* the step in which the second thread's reader of this kind returns
ReaderReturns(kind) ==
    /\ reader.pc = "reading"
    /\ reader'.pc = "returned"
    /\ reader.kind = kind

\* C11 as stated: a read of the failed units changes no unit state and returns
\* exactly one entry per unit that is Failed at the time of the call, keyed by
\* the unit's 0-based position in the batch and carrying its error text.
C11_KeyedByOrdinal ==
    [][ReaderReturns("failed_jobs") =>
        /\ jobs' = jobs
        /\ DOMAIN reader'.failed = {k - 1 : k \in FailedUnits(jobs)}
        /\ \A k \in FailedUnits(jobs) : reader'.failed[k - 1] = jobs[k].payload.data]_vars

\* C11: a read of failed_jobs changes no unit state and returns exactly one
\* entry per unit that is Failed at the time of the call, keyed by the job id
\* the resource gave that unit and carrying the error text of its poll; units
\* in any other state have no entry.
C11_KeyedByJobId ==
    [][ReaderReturns("failed_jobs") =>
        /\ jobs' = jobs
        /\ DOMAIN reader'.failed = {jobs[k].id : k \in FailedUnits(jobs)}
        /\ \A k \in FailedUnits(jobs) :
            /\ reader'.failed[jobs[k].id] = jobs[k].payload.data
            /\ reader'.failed[jobs[k].id] = ErrorOf(jobs[k].id)]_vars

\* failed_jobs has returned one entry for a batch of two units of which the
\* failed one is not first in id order, while the other unit is not failed
C11_Witness ==
    /\ reader.pc = "returned"
    /\ reader.kind = "failed_jobs"
    /\ Len(jobs) = 2
    /\ DOMAIN reader.failed = {jobs[1].id}
    /\ jobs[1].id = 2
    /\ jobs[2].payload.tag # "JobFailed"

\* the step in which status() has submitted its futures and starts to wait
RoundStarts ==
    /\ pc # "status_wait"
    /\ pc' = "status_wait"

\* C12: a round of status() polls exactly the units that are Queued or
\* Running when it starts, one poll each, and no unit that is Finished,
\* Failed or Cancelled: a terminal unit is never polled again.
C12_PollsOnlyNonTerminal ==
    [][RoundStarts =>
        \A k \in DOMAIN jobs :
            (worker'[k].pc = "polling") <=> (jobs[k].payload.tag \notin TerminalTags)]_vars

\* C13: once the timeout of the fan-out has elapsed, a poll that was not
\* complete by then changes nothing in this round: the states of the units
\* stay as they were when the timeout elapsed until status() has computed
\* its aggregate, and status() returns that aggregate and not an error.
C13_LatePollLeavesState ==
    [][pc = "status_shutdown" =>
        /\ jobs' = jobs
        /\ RoundEnds => lastStatus' = _aggregate_status(jobs)]_vars

\* C14: when the timeout of the fan-out has elapsed, status() returns to its
\* caller whether or not every poll is complete: no poll that is still
\* running keeps it from returning.
C14_ReturnsAtTimeout ==
    pc = "status_shutdown" => ENABLED StatusReturn

\* some poll of the current round has ended with this outcome
PollEndedWith(r) ==
    \E k \in DOMAIN worker : worker[k].resp = r /\ Finished(worker[k])

\* C15: a poll that answers an unknown status string changes nothing in its
\* unit, and the round in which it happened hands no aggregate status to its
\* caller: it ends with an internal error.
C15_UnknownStatusReported ==
    [][/\ \A k \in DOMAIN worker :
            worker[k].pc = "locked" /\ worker[k].resp = "unknown"
                /\ worker'[k].pc # "locked" => jobs' = jobs
       /\ RoundEnds /\ PollEndedWith("unknown") =>
            /\ lastStatus' = "none"
            /\ outcome'.kind = "RuntimeError"]_vars

\* C16: a round in which the poll call of some unit failed with a transport
\* error hands no aggregate status to its caller: the error of the call is what
\* status() ends with, and the failed poll is not made again in that round.
C16_TransportErrorSurfaced ==
    [][/\ \A k \in DOMAIN worker :
            worker[k].resp = "transport_error" => worker'[k].pc # "polling"
       /\ RoundEnds /\ PollEndedWith("transport_error") =>
            /\ lastStatus' = "none"
            /\ outcome'.kind = "TransportError"]_vars

\* C17: while some unit is Failed, a round of status() still polls every unit
\* that is Queued or Running and a poll that answers a known status is written
\* to its unit; the Failed unit keeps its state and its error text.
C17_FailedUnitStaysOthersGoOn ==
    [][FailedUnits(jobs) # {} =>
        /\ RoundStarts =>
            \A k \in DOMAIN jobs :
                jobs[k].payload.tag \notin TerminalTags => worker'[k].pc = "polling"
        /\ \A k \in DOMAIN jobs :
            /\ worker[k].pc = "locked" /\ worker'[k].pc = "done" =>
                   jobs'[k].payload = _status_single_payload(Response(worker[k].job_id, worker[k].resp))
            /\ k \in FailedUnits(jobs) => jobs'[k].payload = jobs[k].payload]_vars

\* C18: self._jobs_lock is not held while a call to the resource is in
\* progress. A worker whose poll is in progress does not hold it, the lock
\* is free during a submission call, its holder is a worker that has its
\* response and is about to write, and a worker that holds it can write
\* whatever the polls of the other workers are doing.
C18_LockOnlyAroundWrite ==
    /\ lock \in 0 .. MaxCircuits
    /\ \A k \in DOMAIN worker : worker[k].pc = "polling" => lock # k
    /\ pc = "submit_call" => lock = 0
    /\ lock # 0 => worker[lock].pc = "locked" /\ ENABLED WorkerWrite(lock)
    /\ \A k \in DOMAIN worker :
        worker[k].pc = "polling" /\ lock = 0 => ENABLED WorkerResponse(k)

\* the poll of the first unit is still in progress and the answer to the
\* poll of the second unit has been written in the same round
C18_Witness ==
    /\ Len(jobs) = 2
    /\ worker[1].pc = "polling"
    /\ worker[2].pc = "done"
    /\ jobs[2].payload.tag = "JobFinished"
    /\ lock = 0

\* C19: every write of a unit's state is made by the holder of
\* self._jobs_lock, a reader of failed_jobs or _aggregate_status holds the
\* lock for as long as it reads, no entry it has read changes before it has
\* read them all, and what it returns is computed from the states of all the
\* units as they are at the instant it returns.
C19_ReadersSeeOneInstant ==
    /\ [](reader.pc = "reading" =>
            /\ lock = ReaderThread
            /\ \A i \in DOMAIN reader.seen : reader.seen[i] = jobs[i])
    /\ [][jobs' # jobs =>
            /\ lock \in 1 .. MaxCircuits
            /\ worker[lock].pc = "locked"
            /\ \A k \in DOMAIN jobs : k # lock => jobs'[k] = jobs[k]]_vars
    /\ [][ReaderReturns("failed_jobs") => reader'.failed = failed_jobs(jobs)]_vars
    /\ [][ReaderReturns("_aggregate_status") =>
            reader'.status = _aggregate_status(jobs)]_vars

\* a reader has read the first of two units, which a worker of this round
\* has already written, while the poll of the second unit is still to be
\* written
C19_Witness ==
    /\ reader.pc = "reading"
    /\ Len(jobs) = 2
    /\ Len(reader.seen) = 1
    /\ worker[1].pc = "done"
    /\ worker[2].pc = "polling"

\* a Python list as a function on 0 .. len-1
List(seq) == [i \in 0 .. Len(seq) - 1 |-> seq[i + 1]]

\* no table, an empty one, or one that maps every position of the list, each
\* to a destination of its own
ValidTable(fluorescence_states, qubit_to_bit) ==
    \/ ~qubit_to_bit.given
    \/ qubit_to_bit.items = <<>>
    \/ /\ {qubit_to_bit.items[i][1] : i \in DOMAIN qubit_to_bit.items}
            = 0 .. Width(fluorescence_states) - 1
       /\ \A i, j \in DOMAIN qubit_to_bit.items :
            qubit_to_bit.items[i][2] = qubit_to_bit.items[j][2] => i = j

\* table[s], and s itself when no table or an empty table is given
DestOf(qubit_to_bit, s) ==
    IF qubit_to_bit.given /\ qubit_to_bit.items # <<>>
    THEN qubit_to_bit.items[CHOOSE i \in DOMAIN qubit_to_bit.items :
                                qubit_to_bit.items[i][1] = s][2]
    ELSE s

\* C20: for every list of detected states and every valid table, _shot_to_int
\* returns the non-negative integer that is the sum of shot[s] * 2^table[s]
\* over the source positions s (table[s] = s without a table): its 1 bits are
\* the destinations of the sources that hold a 1, destination 0 being the
\* least-significant bit, and [1,0,0], [0,0,1], [0,1,1] give 1, 4 and 6.
C20_EncodesWeightedSum ==
    enc.pc \in {"returned", "raised"}
        /\ ValidTable(enc.fluorescence_states, enc.qubit_to_bit) =>
            /\ enc.pc = "returned"
            /\ ~Negative(enc.value)
            /\ enc.value = {DestOf(enc.qubit_to_bit, s) :
                              s \in {x \in DOMAIN enc.fluorescence_states :
                                        enc.fluorescence_states[x] = 1}}
            /\ enc.qubit_to_bit.items = <<>> =>
                /\ enc.fluorescence_states = List(<<1, 0, 0>>) => ToInt(enc.value, 3) = 1
                /\ enc.fluorescence_states = List(<<0, 0, 1>>) => ToInt(enc.value, 3) = 4
                /\ enc.fluorescence_states = List(<<0, 1, 1>>) => ToInt(enc.value, 3) = 6

\* the source positions of a table
KeysOf(qubit_to_bit) == {qubit_to_bit.items[i][1] : i \in DOMAIN qubit_to_bit.items}

\* C21: for a list of W detected states, every non-empty table whose set of
\* source positions is not {0, ..., W-1} makes _shot_to_int raise ValueError,
\* and the call yields no value.
C21_PartialTableRejected ==
    /\ enc.pc \in {"returned", "raised"}
    /\ enc.qubit_to_bit.given
    /\ enc.qubit_to_bit.items # <<>>
    /\ KeysOf(enc.qubit_to_bit) # 0 .. Width(enc.fluorescence_states) - 1
    => /\ enc.pc = "raised"
       /\ enc.raised = "ValueError"
       /\ enc.value = {}

\* the table {1: 2, 2: 1} has been rejected for the 3-wide list [0, 0, 1]
C21_Witness ==
    /\ enc.pc = "raised"
    /\ enc.fluorescence_states = List(<<0, 0, 1>>)
    /\ enc.qubit_to_bit.items = << <<1, 2>>, <<2, 1>> >>

\* two source positions of the table have the same destination
NonInjective(qubit_to_bit) ==
    \E i, j \in DOMAIN qubit_to_bit.items :
        i # j /\ qubit_to_bit.items[i][2] = qubit_to_bit.items[j][2]

\* C22: a table that maps two source positions to the same destination is
\* rejected: the call raises and returns no value, so that neither source
\* overwrites the other.
C22_NonInjectiveRejected ==
    /\ enc.pc \in {"returned", "raised"}
    /\ enc.qubit_to_bit.given
    /\ NonInjective(enc.qubit_to_bit)
    => enc.pc = "raised"

\* the positions in circuit.data of the measurements of a source position
MeasurementsOf(data, q) ==
    {n \in DOMAIN data : data[n].name = "measure" /\ data[n].qubits = <<q>>}

\* C25: the table built from a circuit has one item for each measured source
\* position, with the destination of the last measurement of that position;
\* unmeasured positions have no item; no measurement gives the empty table
C25_LastMeasurementWins ==
    enc.pc = "map_returned" =>
        LET data == enc.circuit.data
            items == enc.qu2cl
        IN /\ \A q \in 0 .. MaxWidth - 1 :
                IF MeasurementsOf(data, q) = {}
                THEN \A i \in DOMAIN items : items[i][1] # q
                ELSE /\ Cardinality({i \in DOMAIN items : items[i][1] = q}) = 1
                     /\ \A i \in DOMAIN items : items[i][1] = q =>
                            items[i][2] = data[SetMax(MeasurementsOf(data, q))].clbits[1]
           /\ (\A n \in DOMAIN data : data[n].name # "measure") => items = <<>>

\* a position measured twice into different destinations, another one never
C25_Witness ==
    /\ enc.pc = "map_returned"
    /\ enc.circuit.data = <<Measure(0, 0), Gate(1), Measure(0, 1)>>
    /\ enc.qu2cl = << <<0, 1>> >>

\* the entry of a unit has been computed, or computing it has raised
EntryEnded == enc.pc \in {"entry_appended", "entry_raised"}

\* C23 as stated: the 3-wide shot [1,0,0] with the table {0:1} is encoded
\* under the key "0x2"
C23_ThreeWideShotKey ==
    (/\ EntryEnded
     /\ enc.circuit.data = <<Measure(0, 1)>>
     /\ enc.samples = <<List(<<1, 0, 0>>)>>)
        => /\ enc.pc = "entry_appended"
           /\ DOMAIN enc.counts = {<<"0", "x", "2">>}

\* C23: with the table {0:1}, the 1-wide shot [1] is encoded under the key
\* "0x2", counted once; the 3-wide shot [1,0,0] is rejected with ValueError
\* because the table does not give a destination to positions 1 and 2
C23_OneWideShotKey ==
    (EntryEnded /\ enc.circuit.data = <<Measure(0, 1)>>) =>
        /\ enc.samples = <<List(<<1>>)>> =>
            /\ enc.pc = "entry_appended"
            /\ DOMAIN enc.counts = {<<"0", "x", "2">>}
            /\ enc.counts[<<"0", "x", "2">>] = 1
        /\ enc.samples = <<List(<<1, 0, 0>>)>> =>
            /\ enc.pc = "entry_raised"
            /\ enc.raised = "ValueError"

\* the 1-wide shot has been encoded through the table {0:1}
C23_Witness ==
    /\ enc.pc = "entry_appended"
    /\ enc.circuit.data = <<Measure(0, 1)>>
    /\ enc.samples = <<List(<<1>>)>>
    /\ <<"0", "x", "2">> \in DOMAIN enc.counts

\* the sum of the values of a counts dict
RECURSIVE SumCounts(_)
SumCounts(counts) ==
    IF DOMAIN counts = {} THEN 0
    ELSE LET key == CHOOSE k \in DOMAIN counts : TRUE
         IN counts[key] + SumCounts([k \in DOMAIN counts \ {key} |-> counts[k]])

\* the outcome of one shot after remapping: the clbits that read 1
Outcome(shot, circuit) ==
    LET items == _build_memory_mapping(circuit).items
    IN IF items = <<>> THEN {i \in DOMAIN shot : shot[i] = 1}
       ELSE {items[i][2] : i \in {j \in DOMAIN items : shot[items[j][1]] = 1}}

\* the payload holds one shot list for each declared shot, and every list has
\* one state for each measured qubit or one for each qubit of the circuit
PayloadAsRequested ==
    /\ Len(enc.samples) = enc.shots
    /\ \A i \in DOMAIN enc.samples :
        Width(enc.samples[i]) \in {Len(enc.circuit.data), MaxWidth} \ {0}

\* C24 as stated: for every Finished unit the entry holds counts whose values
\* sum to the declared shot count, which is the entry's "shots", and each
\* distinct outcome has one key
C24_CountsSumToShots ==
    (EntryEnded /\ PayloadAsRequested) =>
        /\ enc.pc = "entry_appended"
        /\ enc.entry_shots = enc.shots
        /\ SumCounts(enc.counts) = enc.shots
        /\ Cardinality(DOMAIN enc.counts)
             = Cardinality({Outcome(enc.samples[i], enc.circuit) : i \in DOMAIN enc.samples})

\* C26 as stated: when the circuit measures a strict subset of its qubits, the
\* entry is computed and its keys are the outcomes of the measured qubits on
\* the bits of the classical register
C26_SubsetMeasurementSucceeds ==
    (/\ EntryEnded
     /\ PayloadAsRequested
     /\ enc.circuit.data # <<>>
     /\ Len(enc.circuit.data) < MaxWidth)
        => /\ enc.pc = "entry_appended"
           /\ DOMAIN enc.counts
                = {hex(Outcome(enc.samples[i], enc.circuit)) : i \in DOMAIN enc.samples}

\* C27 as stated: the key of a shot is the hexadecimal number of a non-negative
\* integer, whatever the width of the shot
C27_KeyNeverNegative ==
    enc.pc = "entry_appended" =>
        \A key \in DOMAIN enc.counts : key[1] # "-"

\* C28: the write that ends a poll with a recognized status puts the polled
\* unit in the state that status stands for, whatever state it was in: Queued
\* for "queued", Running for "ongoing", Finished with the response's shot
\* vectors for "finished", Failed with the response's result for "error"; no
\* other unit changes and no unit is added or removed
C28_WriteIsTranslationOfStatus ==
    [][\A w \in DOMAIN worker :
          (worker[w].pc = "locked" /\ worker'[w].pc = "done") =>
              LET job_id == worker[w].job_id
                  status == worker[w].resp
              IN /\ Len(jobs') = Len(jobs)
                 /\ \A k \in DOMAIN jobs :
                      IF jobs[k].id = job_id
                      THEN /\ jobs'[k].id = job_id
                           /\ status = "queued" => jobs'[k].payload = JobQueued
                           /\ status = "ongoing" => jobs'[k].payload = JobOngoing
                           /\ status = "finished" =>
                                jobs'[k].payload = JobFinished(SamplesOf(remoteCircuit[job_id]))
                           /\ status = "error" =>
                                jobs'[k].payload = JobFailed(ErrorOf(job_id))
                           /\ status \in {"queued", "ongoing", "finished", "error"}
                      ELSE jobs'[k] = jobs[k]]_vars

\* a poll that said "error" has been written while another unit is Finished
C28_Witness ==
    \E w \in DOMAIN worker : \E k, j \in DOMAIN jobs :
        /\ worker[w].pc = "done"
        /\ worker[w].resp = "error"
        /\ jobs[k].id = worker[w].job_id
        /\ jobs[k].payload = JobFailed(ErrorOf(jobs[k].id))
        /\ j # k
        /\ jobs[j].payload.tag = "JobFinished"

\* C30: for a batch of zero units the aggregate is QUEUED, every status()
\* round reports QUEUED, and a result() call stays in its wait: it never
\* reaches the aggregate test, never raises and never returns a Result
C30_EmptyBatchNeverTerminal ==
    N = 0 =>
        /\ jobs = <<>>
        /\ _aggregate_status(jobs) = "QUEUED"
        /\ lastStatus \in {"none", "QUEUED"}
        /\ pc # "result_agg"
        /\ outcome.kind \notin {"Result", "RuntimeError", "WaitReturned"}

\* result() on an empty batch has seen a round report QUEUED and waits on
C30_Witness ==
    /\ N = 0
    /\ op = "result"
    /\ lastStatus = "QUEUED"
    /\ pc = "wait_check"

\* the angle the case is chosen on: theta, or theta mod 2 pi when |theta| > pi/2
Residual(theta) ==
    IF abs(theta) <= HalfPi THEN theta ELSE theta % (2 * Pi)

\* RZ(pi) on qubit 0 right before and right after the instruction at position i
RzAround(operations, i) ==
    /\ i - 1 \in DOMAIN operations
    /\ i + 1 \in DOMAIN operations
    /\ operations[i - 1] = CircuitInstruction("rz", Pi, <<0>>)
    /\ operations[i + 1] = CircuitInstruction("rz", Pi, <<0>>)

\* the sequence starts with RX(pi) on qubit 0 and RX(pi) on qubit 1
RxOnBoth(operations) ==
    /\ Len(operations) >= 2
    /\ operations[1] = CircuitInstruction("rx", Pi, <<0>>)
    /\ operations[2] = CircuitInstruction("rx", Pi, <<1>>)

\* C29: wrap_rxx_angle(theta) emits exactly one RXX gate, on qubits (0, 1), with
\* an angle in [0, pi/2]; RX(pi) on both qubits comes first exactly when the
\* residual of theta is in (pi/2, 3 pi/2]; RZ(pi) on qubit 0 stands before and
\* after the RXX exactly when the angle left to realise is negative; there is no
\* other gate, and the angle realised equals theta modulo 2 pi
C29_OneRxxInFirstQuadrant ==
    enc.pc = "rxx_returned" =>
        LET operations == enc.operations
            r == Residual(enc.theta)
            at == {i \in DOMAIN operations : operations[i].gate = "rxx"}
        IN /\ Cardinality(at) = 1
           /\ \A i \in at :
                LET angle == operations[i].angle
                    shifted == r > HalfPi /\ r <= 3 * HalfPi
                    left == IF shifted THEN r - Pi
                            ELSE IF r > 3 * HalfPi THEN r - 2 * Pi ELSE r
                IN /\ operations[i].qubits = <<0, 1>>
                   /\ angle >= 0
                   /\ angle <= HalfPi
                   /\ angle = abs(left)
                   /\ RxOnBoth(operations) <=> shifted
                   /\ RzAround(operations, i) <=> left < 0
                   /\ Len(operations) = 1 + (IF shifted THEN 2 ELSE 0)
                                          + (IF left < 0 THEN 2 ELSE 0)
                   /\ ((IF shifted THEN Pi ELSE 0) + (IF left < 0 THEN 0 - angle ELSE angle)
                         - enc.theta) % (2 * Pi) = 0

\* an angle beyond a full turn whose residual is both shifted and negative
C29_Witness ==
    /\ enc.pc = "rxx_returned"
    /\ enc.theta > 2 * Pi
    /\ Len(enc.operations) = 5
    /\ enc.operations[4].gate = "rxx"

\* C31: no unit is ever in state Cancelled, so neither _aggregate_status nor a
\* status() round ever gives CANCELLED
C31_NeverCancelled ==
    /\ \A k \in DOMAIN jobs : jobs[k].payload.tag \in
            {"JobQueued", "JobOngoing", "JobFinished", "JobFailed"}
    /\ _aggregate_status(jobs) # "CANCELLED"
    /\ lastStatus # "CANCELLED"

\* a status() round has ended on units that polls have put in final states
C31_Witness ==
    /\ lastStatus = "ERROR"
    /\ {jobs[k].payload.tag : k \in DOMAIN jobs} = {"JobFailed", "JobFinished"}
    /\ \A w \in DOMAIN worker : worker[w].pc \in {"none", "done"}

\* C32 as stated: a Result with overall success true has one entry for each
\* circuit of the batch: every circuit was submitted and its unit is Finished
C32_SuccessCoversEveryCircuit ==
    (outcome.kind = "Result" /\ outcome.success) =>
        /\ Len(outcome.results) = N
        /\ Len(jobs) = N
        /\ \A k \in 1 .. N : jobs[k].payload.tag = "JobFinished"

====
